---------------------------- MODULE Spec2Model ----------------------------
(***************************************************************************)
(* A model of termscript.py: the key encoder, the script commands and      *)
(* their generator (the scheduler), and record_command with its event      *)
(* loop _copy.                                                             *)
(*                                                                         *)
(* Characters and bytes are code points (integers); a text or a chunk of   *)
(* bytes is a sequence of them.  All texts of the model are ASCII, so a    *)
(* character and its utf8 encoding are the same single byte.               *)
(***************************************************************************)
EXTENDS Integers, Sequences, FiniteSets, TLC

(***************************************************************************)
(* Bounds of the model.                                                    *)
(***************************************************************************)
\* the clock stops advancing at MaxTime
MaxTime == 4
\* what the environment feeds a session: chunks of child output, chunks of
\* user input, ends of file and signals, MaxInputs of them in all
MaxInputs == 2

(***************************************************************************)
(* Sequence helpers.                                                       *)
(***************************************************************************)
Last(s) == s[Len(s)]

Drop(s, n) == SubSeq(s, n + 1, Len(s))

Take(s, n) == SubSeq(s, 1, n)

StartsWith(s, p) == Len(p) <= Len(s) /\ SubSeq(s, 1, Len(p)) = p

\* Python's "p in s" on bytes: p occurs as a contiguous slice of s
Contains(s, p) ==
    \E i \in 0..(Len(s) - Len(p)) : SubSeq(s, i + 1, i + Len(p)) = p

RECURSIVE Flatten(_)
Flatten(ss) == IF ss = <<>> THEN <<>> ELSE Head(ss) \o Flatten(Tail(ss))

(***************************************************************************)
(* Key encoder (lines 22-80).  A helper that raises in Python returns the  *)
(* value Raised here.                                                      *)
(***************************************************************************)
Raised == <<-1>>

ESC == 27

IsUpperC(c) == c \in 65..90

IsLowerC(c) == c \in 97..122

\* str.lower / str.upper on one ASCII character
LowerC(c) == IF IsUpperC(c) THEN c + 32 ELSE c

UpperC(c) == IF IsLowerC(c) THEN c - 32 ELSE c

Lower(s) == [i \in 1..Len(s) |-> LowerC(s[i])]

\* chr(v): ValueError outside range(0x110000)
Chr(v) == IF v < 0 \/ v > 1114111 THEN Raised ELSE <<v>>

\* ord(s): TypeError unless s is one character
ctrl(s) == IF Len(s) # 1 THEN Raised ELSE Chr(UpperC(s[1]) - 65 + 1)

alt(s) ==
    IF Len(s) # 1 THEN Raised
    ELSE LET r == Chr(LowerC(s[1]) - 97 + 1)
         IN IF r = Raised THEN Raised ELSE <<ESC>> \o r

alt_shift(s) ==
    IF Len(s) # 1 THEN Raised
    ELSE LET r == Chr(UpperC(s[1]) - 97 + 1)
         IN IF r = Raised THEN Raised ELSE <<ESC>> \o r

csi(v) == <<ESC, 91>> \o v

\* KEYCODES.get(name, ''): esc del up down right left el
KEYCODES(name) ==
    CASE name = <<101, 115, 99>> -> <<ESC>>
      [] name = <<100, 101, 108>> -> <<127>>
      [] name = <<117, 112>> -> csi(<<65>>)
      [] name = <<100, 111, 119, 110>> -> csi(<<66>>)
      [] name = <<114, 105, 103, 104, 116>> -> csi(<<67>>)
      [] name = <<108, 101, 102, 116>> -> csi(<<68>>)
      [] name = <<101, 108>> -> ctrl(<<85>>)
      [] OTHER -> <<>>

\* the prefixes "ctrl-", "alt-shift-", "shift-alt-", "alt-"
PfxCtrl == <<99, 116, 114, 108, 45>>

PfxAltShift == <<97, 108, 116, 45, 115, 104, 105, 102, 116, 45>>

PfxShiftAlt == <<115, 104, 105, 102, 116, 45, 97, 108, 116, 45>>

PfxAlt == <<97, 108, 116, 45>>

\* _escape_keys(m) for m.group(1) = name
EscapeKey(name) ==
    LET keycode == Lower(name)
        tried ==
            IF StartsWith(keycode, PfxCtrl)
            THEN ctrl(Drop(keycode, Len(PfxCtrl)))
            ELSE IF StartsWith(keycode, PfxAltShift) \/ StartsWith(keycode, PfxShiftAlt)
            THEN alt_shift(Drop(keycode, Len(PfxAltShift)))
            ELSE IF StartsWith(keycode, PfxAlt)
            THEN alt(Drop(keycode, Len(PfxAlt)))
            ELSE Raised
    IN IF tried # Raised THEN tried ELSE KEYCODES(keycode)

(***************************************************************************)
(* CmdType.execute's text conversions (lines 137-138).                     *)
(***************************************************************************)
\* [\w\d-] on ASCII: a letter, a digit, underscore or dash
IsKeyChar(c) == IsUpperC(c) \/ IsLowerC(c) \/ c \in 48..57 \/ c = 95 \/ c = 45

\* the length of the longest run of key characters at the head of t
RECURSIVE KeyRun(_)
KeyRun(t) ==
    IF t # <<>> /\ IsKeyChar(Head(t)) THEN 1 + KeyRun(Tail(t)) ELSE 0

\* re.sub(r'<([\w\d-]+)>', _escape_keys, t): leftmost matches, left to right
RECURSIVE SubKeys(_)
SubKeys(t) ==
    IF t = <<>> THEN <<>>
    ELSE LET k == KeyRun(Tail(t))
         IN IF Head(t) = 60 /\ k >= 1 /\ Len(t) >= k + 2 /\ t[k + 2] = 62
            THEN EscapeKey(SubSeq(t, 2, k + 1)) \o SubKeys(Drop(t, k + 2))
            ELSE <<Head(t)>> \o SubKeys(Tail(t))

\* the one-character backslash escapes of the unicode_escape codec; a
\* backslash before a line feed is a line continuation and yields nothing
SimpleEscape(c) ==
    CASE c = 10 -> <<>>
      [] c = 92 -> <<92>>
      [] c = 39 -> <<39>>
      [] c = 34 -> <<34>>
      [] c = 97 -> <<7>>
      [] c = 98 -> <<8>>
      [] c = 102 -> <<12>>
      [] c = 110 -> <<10>>
      [] c = 114 -> <<13>>
      [] c = 116 -> <<9>>
      [] c = 118 -> <<11>>
      [] OTHER -> <<92, c>>

\* unicode_escape decoding fails on a backslash that ends the text.  (The
\* numeric escapes \ooo \xhh \uXXXX \UXXXXXXXX \N{..} are not modelled: no
\* text of the model has a backslash before a digit, x, u, U or N.)
RECURSIVE DecodeFails(_)
DecodeFails(t) ==
    IF t = <<>> THEN FALSE
    ELSE IF Head(t) # 92 THEN DecodeFails(Tail(t))
    ELSE IF Len(t) = 1 THEN TRUE
    ELSE DecodeFails(Drop(t, 2))

\* text.encode('utf8').decode('unicode_escape'), where it does not fail
RECURSIVE Unescape(_)
Unescape(t) ==
    IF t = <<>> THEN <<>>
    ELSE IF Head(t) # 92 THEN <<Head(t)>> \o Unescape(Tail(t))
    ELSE IF Len(t) = 1 THEN <<>>
    ELSE SimpleEscape(t[2]) \o Unescape(Drop(t, 2))

\* the characters CmdType.execute iterates over (line 139)
TypeText(t) == SubKeys(Unescape(t))

(***************************************************************************)
(* Actions and script commands (lines 48-49, 83-88, 113-160).              *)
(***************************************************************************)
ACT_SLEEP == 1

ACT_WAIT_SEQUENCE == 2

\* b'\x1B]777;notify;Command completed;' (line 151)
Marker ==
    <<27, 93, 55, 55, 55, 59, 110, 111, 116, 105, 102, 121, 59, 67, 111, 109,
      109, 97, 110, 100, 32, 99, 111, 109, 112, 108, 101, 116, 101, 100, 59>>

CmdType(text) == [op |-> "type", text |-> text]

CmdWait == [op |-> "wait"]

CmdSleep(timeout) == [op |-> "sleep", timeout |-> timeout]

\* CmdEnter returns Sequence((CmdType(text), CmdWait)); a Sequence yields
\* from its commands in order, so a nested Sequence is its commands in place
CmdEnter(text) ==
    <<CmdType(IF text # <<>> /\ Last(text) = 10 THEN text ELSE text \o <<10>>),
      CmdWait>>

\* compile: the commands of a script's entries, in source order
RECURSIVE Compile(_)
Compile(entries) ==
    IF entries = <<>> THEN <<>>
    ELSE LET e == Head(entries)
             cmds == CASE e.name = "enter" -> CmdEnter(e.arg)
                       [] e.name = "type" -> <<CmdType(e.arg)>>
                       [] e.name = "sleep" -> <<CmdSleep(e.arg)>>
                       [] e.name = "wait" -> <<CmdWait>>
         IN cmds \o Compile(Tail(entries))

\* _rand_range(0.05, 0.2) in clock ticks of a tenth of a second
TypeDelays == {1, 2}

(***************************************************************************)
(* The scripts, chunks and signals the model draws its inputs from.        *)
(***************************************************************************)
Entry(name, arg) == [name |-> name, arg |-> arg]

\* "a"; "b"; "a\" (a, backslash); "<el>\n" (the key el, backslash, n)
TextA == <<97>>

TextB == <<98>>

TextABackslash == <<97, 92>>

TextKeyEscape == <<60, 101, 108, 62, 92, 110>>

Scripts ==
    { <<>>,
      <<Entry("type", TextKeyEscape)>>,
      <<Entry("enter", TextA), Entry("type", TextB)>>,
      <<Entry("sleep", 1), Entry("wait", "prompt"), Entry("sleep", 0)>>,
      <<Entry("wait", "prompt"), Entry("type", TextB)>>,
      <<Entry("enter", TextABackslash)>>,
      <<Entry("type", TextABackslash)>> }

\* a session: a script, and whether the real input and output are terminals
Sessions ==
    {[entries |-> e, stdin |-> TRUE, stdout |-> TRUE] : e \in Scripts}
    \cup {[entries |-> e, stdin |-> FALSE, stdout |-> FALSE] :
             e \in {<<>>, <<Entry("type", TextKeyEscape)>>}}

\* what the child writes: no marker; the marker inside other bytes; the
\* marker cut in two
MasterChunks ==
    { <<120>>,
      <<120>> \o Marker \o <<121>>,
      Take(Marker, 16),
      Drop(Marker, 16) }

StdinChunks == { <<107>>, <<108, 109>> }

TermSignals == {"SIGCHLD", "SIGHUP", "SIGTERM", "SIGQUIT"}

\* the signals the model delivers
Signals == {"SIGCHLD", "SIGQUIT", "SIGWINCH"}

\* window sizes (rows, columns) of the real terminal
Sizes == { <<25, 81>>, <<50, 132>> }

\* the counts os.write may return for data: all of it, or all but the last
\* byte
WriteCounts(d) == {Len(d) - 1, Len(d)} \ {0}

(***************************************************************************)
(* State.                                                                  *)
(***************************************************************************)
VARIABLES
    pc,             \* where record_command / _copy stands
    script,         \* the compiled commands (Sequence._commands)
    runner,         \* "generator", or "None" once StopIteration was caught
    rpos,           \* where the generator is suspended: command, character
    script_action,  \* the dict script_action: ACT_* -> value
    timeout,        \* _copy's timeout; None is no timeout
    fds,            \* _copy's watch list
    rfds,           \* the ready list of the last select that returned
    rfdsBound,      \* whether rfds was ever assigned
    data,           \* the local data of _write_master
    signals,        \* the signals read from the pipe, not yet handled
    masterOpen,     \* master_fd is open
    closeCount,     \* calls of os.close(master_fd)
    ptySize,        \* the pseudo-terminal's window size
    tty,            \* the real terminal: [stdin, isatty, size]
    restore,        \* raw.restore
    termMode,       \* the real input's mode: "cooked" or "raw"
    restoreCount,   \* calls of tcsetattr in raw.__exit__
    exitKind,       \* how _copy ended: "return", "oserror", "failure"
    sigPipe,        \* signal numbers written to the wakeup pipe, unread
    now,            \* time.time()
    ptyWrites,      \* history: the writes to master_fd, in order
    stdoutLog,      \* history: the bytes the real output accepted
    masterLog,      \* history: the chunks read from master_fd
    stdinLog,       \* history: the chunks read from the real input
    sigLog,         \* history: the signals delivered
    waitFrom,       \* history: chunks read before the last wait was yielded
    selectResult    \* history: how the last call of select ended

vars ==
    <<pc, script, runner, rpos, script_action, timeout, fds, rfds, rfdsBound,
      data, signals, masterOpen, closeCount, ptySize, tty, restore, termMode,
      restoreCount, exitKind, sigPipe, now, ptyWrites, stdoutLog,
      masterLog, stdinLog, sigLog, waitFrom, selectResult>>

None == -1

\* the empty dict
NoAction == <<>>

ActSleep(t) == ACT_SLEEP :> (now + t)

ActWaitSequence(sequence) == ACT_WAIT_SEQUENCE :> sequence

\* script_action.get(key) is truthy
Has(key) == key \in DOMAIN script_action

\* a chunk with the marker was read from the pseudo-terminal
MarkerSeen == \E i \in 1..Len(masterLog) : Contains(masterLog[i], Marker)

\* the inputs the environment has fed the session
Inputs ==
    Len(masterLog) + Len(stdinLog) + Len(sigLog) + (3 - Cardinality(fds))

\* the state at line 335: the child is forked, the pipe and the handlers are
\* set up, script_action = {} (line 213)
Init ==
    /\ pc = "set_pty_size"
    /\ \E s \in Sessions :
          /\ script = Compile(s.entries)
          /\ tty = [stdin |-> s.stdin, isatty |-> s.stdout, size |-> <<25, 81>>]
    /\ runner = "generator"
    /\ rpos = [ci |-> 0, ti |-> 0]
    /\ script_action = NoAction
    /\ timeout = None
    /\ fds = {"master", "stdin", "signal"}
    /\ rfds = {}
    /\ rfdsBound = FALSE
    /\ data = <<>>
    /\ signals = <<>>
    /\ masterOpen = TRUE
    /\ closeCount = 0
    /\ ptySize = <<0, 0>>
    /\ restore = FALSE
    /\ termMode = "cooked"
    /\ restoreCount = 0
    /\ exitKind = "none"
    /\ sigPipe = <<>>
    /\ now = 0
    /\ ptyWrites = <<>>
    /\ stdoutLog = <<>>
    /\ masterLog = <<>>
    /\ stdinLog = <<>>
    /\ sigLog = <<>>
    /\ waitFrom = 0
    /\ selectResult = "none"

(***************************************************************************)
(* The scheduler: the generator script.execute(master_fd).                 *)
(***************************************************************************)
IsType(k) == k \in 1..Len(script) /\ script[k].op = "type"

Chars(k) == TypeText(script[k].text)

\* the first yield of the commands from the k-th on
RECURSIVE FirstYield(_)
FirstYield(k) ==
    IF k > Len(script) THEN [kind |-> "stop", pos |-> [ci |-> k, ti |-> 0]]
    ELSE CASE script[k].op = "type" ->
                IF DecodeFails(script[k].text)
                THEN [kind |-> "failure", pos |-> [ci |-> k, ti |-> 0]]
                ELSE IF Chars(k) = <<>> THEN FirstYield(k + 1)
                ELSE [kind |-> "keystroke", pos |-> [ci |-> k, ti |-> 1]]
           [] script[k].op = "sleep" ->
                [kind |-> "sleep", pos |-> [ci |-> k, ti |-> 0]]
           [] script[k].op = "wait" ->
                [kind |-> "wait", pos |-> [ci |-> k, ti |-> 0]]

\* the character the generator writes when it is resumed at pos (line 141)
PendingChar(pos) ==
    IF IsType(pos.ci) THEN <<Chars(pos.ci)[pos.ti]>> ELSE <<>>

\* a mutant of NextYield: the command after a finished one is passed over
NextYieldSkipping(pos) ==
    IF IsType(pos.ci) /\ pos.ti < Len(Chars(pos.ci))
    THEN [kind |-> "keystroke", pos |-> [ci |-> pos.ci, ti |-> pos.ti + 1]]
    ELSE FirstYield(pos.ci + 2)

\* the yield the generator reaches when it is resumed at pos
NextYield(pos) ==
    IF IsType(pos.ci) /\ pos.ti < Len(Chars(pos.ci))
    THEN [kind |-> "keystroke", pos |-> [ci |-> pos.ci, ti |-> pos.ti + 1]]
    ELSE FirstYield(pos.ci + 1)

\* _copy ends by an exception or a return: control goes to raw.__exit__
Leave(kind) ==
    /\ pc' = "raw_exit"
    /\ exitKind' = kind

\* script_action.clear(); script_action.update(runner.send(None)), then
\* control goes to pcNext with timeout tmo (lines 266-267, 271-272, 275-276)
RunnerSend(pcNext, tmo) ==
    LET w == PendingChar(rpos)
        y == NextYield(rpos)
        written == IF w = <<>> THEN ptyWrites
                   ELSE Append(ptyWrites,
                               [src |-> "script", cmd |-> rpos.ci, data |-> w])
    IN \/ \* os.write(master_fd, c) raises OSError
          /\ w # <<>>
          /\ script_action' = NoAction
          /\ timeout' = tmo
          /\ Leave("oserror")
          /\ UNCHANGED <<runner, rpos, ptyWrites, waitFrom>>
       \/ \* the generator raises UnicodeDecodeError at line 137
          /\ y.kind = "failure"
          /\ script_action' = NoAction
          /\ timeout' = tmo
          /\ ptyWrites' = written
          /\ rpos' = y.pos
          /\ Leave("failure")
          /\ UNCHANGED <<runner, waitFrom>>
       \/ \* StopIteration: runner = None (line 276)
          /\ y.kind = "stop"
          /\ script_action' = NoAction
          /\ timeout' = tmo
          /\ ptyWrites' = written
          /\ rpos' = y.pos
          /\ runner' = "None"
          /\ pc' = "select"
          /\ UNCHANGED <<exitKind, waitFrom>>
       \/ /\ y.kind = "keystroke"
          /\ \E d \in TypeDelays : script_action' = ActSleep(d)
          /\ timeout' = tmo
          /\ ptyWrites' = written
          /\ rpos' = y.pos
          /\ pc' = pcNext
          /\ UNCHANGED <<runner, exitKind, waitFrom>>
       \/ /\ y.kind = "sleep"
          /\ script_action' = ActSleep(script[y.pos.ci].timeout)
          /\ timeout' = tmo
          /\ ptyWrites' = written
          /\ rpos' = y.pos
          /\ pc' = pcNext
          /\ UNCHANGED <<runner, exitKind, waitFrom>>
       \/ /\ y.kind = "wait"
          /\ script_action' = ActWaitSequence(Marker)
          /\ waitFrom' = Len(masterLog)
          /\ timeout' = tmo
          /\ ptyWrites' = written
          /\ rpos' = y.pos
          /\ pc' = pcNext
          /\ UNCHANGED <<runner, exitKind>>

(***************************************************************************)
(* record_command before the loop (lines 335-337).                         *)
(***************************************************************************)
\* a mutant of SetPtySizeTo: the real terminal's size is not looked at
SetPtySizeDefault == <<24, 80>>

\* _set_pty_size (lines 218-225)
SetPtySizeTo == IF tty.isatty THEN tty.size ELSE <<24, 80>>

SetPtySize ==
    /\ pc = "set_pty_size"
    /\ ptySize' = SetPtySizeTo
    /\ pc' = "raw_enter"
    /\ UNCHANGED <<script, runner, rpos, script_action, timeout, fds, rfds,
                   rfdsBound, data, signals, masterOpen, closeCount, tty,
                   restore, termMode, restoreCount, exitKind, sigPipe, now, ptyWrites, stdoutLog, masterLog, stdinLog,
                   sigLog,
                   waitFrom, selectResult>>

\* raw.__enter__ (lines 96-102): tcgetattr raises tty.error when the real
\* input is no terminal
RawEnter ==
    /\ pc = "raw_enter"
    /\ \/ /\ tty.stdin
          /\ restore' = TRUE
          /\ termMode' = "raw"
       \/ /\ ~tty.stdin
          /\ UNCHANGED <<restore, termMode>>
    /\ pc' = "sched"
    /\ UNCHANGED <<script, runner, rpos, script_action, timeout, fds, rfds,
                   rfdsBound, data, signals, masterOpen, closeCount, ptySize,
                   tty, restoreCount, exitKind, sigPipe, now,
                   ptyWrites, stdoutLog, masterLog, stdinLog, sigLog,
                   waitFrom, selectResult>>

(***************************************************************************)
(* _copy: the scheduling part of an iteration (lines 259-276).  One step   *)
(* is one pass of the inner "while runner" loop.                           *)
(***************************************************************************)
\* a mutant of Expired: the runner is resumed whatever the clock says
ExpiredAlways == TRUE

\* timeout = script_action.get(ACT_SLEEP) - time.time(); timeout < 0
Expired == script_action[ACT_SLEEP] - now < 0

\* a mutant of ExpiredTimeout: the timeout of the sleep is left in place
ExpiredTimeoutKept == timeout

\* "timeout = None" before the runner is resumed from a sleep (line 265)
ExpiredTimeout == None

\* a mutant of SlotEmpty: a wait in the slot counts as no action
SlotEmptyOrWaiting == ~Has(ACT_SLEEP)

\* "if not script_action" (line 270)
SlotEmpty == script_action = NoAction

SchedStep ==
    /\ pc = "sched"
    /\ \/ \* runner is None: the inner loop is skipped
          /\ runner = "None"
          /\ pc' = "select"
          /\ UNCHANGED <<script_action, timeout, runner, rpos, ptyWrites,
                         exitKind, waitFrom>>
       \/ \* a sleep is outstanding and its deadline has passed
          /\ runner # "None"
          /\ Has(ACT_SLEEP)
          /\ Expired
          /\ RunnerSend("sched", ExpiredTimeout)
       \/ \* a sleep is outstanding and still pending
          /\ runner # "None"
          /\ Has(ACT_SLEEP)
          /\ ~Expired
          /\ timeout' = script_action[ACT_SLEEP] - now
          /\ pc' = "select"
          /\ UNCHANGED <<script_action, runner, rpos, ptyWrites, exitKind,
                         waitFrom>>
       \/ \* no action is outstanding
          /\ runner # "None"
          /\ ~Has(ACT_SLEEP)
          /\ SlotEmpty
          /\ RunnerSend("select", timeout)
       \/ \* a wait is outstanding
          /\ runner # "None"
          /\ ~Has(ACT_SLEEP)
          /\ ~SlotEmpty
          /\ pc' = "select"
          /\ UNCHANGED <<script_action, timeout, runner, rpos, ptyWrites,
                         exitKind, waitFrom>>
    /\ UNCHANGED <<script, fds, rfds, rfdsBound, data, signals, masterOpen,
                   closeCount, ptySize, tty, restore, termMode, restoreCount,
                   sigPipe, now, stdoutLog, masterLog, stdinLog,
                   sigLog,
                   selectResult>>

(***************************************************************************)
(* _copy: select (lines 278-285).                                          *)
(***************************************************************************)
LoopPcs ==
    {"sched", "select", "dispatch_master", "dispatch_stdin", "write_master",
     "dispatch_signal", "signals"}

\* select returns the descriptors that are ready: the signal pipe when it
\* holds a byte, the other two when the child or the user made them so
SelectReady ==
    /\ pc = "select"
    /\ \E r \in SUBSET fds :
          /\ r # {}
          /\ ("signal" \in r) <=> (sigPipe # <<>> /\ "signal" \in fds)
          /\ rfds' = r
    /\ rfdsBound' = TRUE
    /\ selectResult' = "ready"
    /\ pc' = "dispatch_master"
    /\ UNCHANGED <<script, runner, rpos, script_action, timeout, fds, data,
                   signals, masterOpen, closeCount, ptySize, tty, restore,
                   termMode, restoreCount, exitKind, sigPipe, now,
                   ptyWrites, stdoutLog, masterLog, stdinLog, sigLog,
                   waitFrom>>

\* nothing became ready within the timeout
SelectTimeout ==
    /\ pc = "select"
    /\ timeout # None
    /\ sigPipe = <<>>
    /\ now + timeout <= MaxTime
    /\ now' = now + timeout
    /\ rfds' = {}
    /\ rfdsBound' = TRUE
    /\ selectResult' = "timeout"
    /\ pc' = "dispatch_master"
    /\ UNCHANGED <<script, runner, rpos, script_action, timeout, fds, data,
                   signals, masterOpen, closeCount, ptySize, tty, restore,
                   termMode, restoreCount, exitKind, sigPipe,
                   ptyWrites, stdoutLog, masterLog, stdinLog, sigLog,
                   waitFrom>>

\* the kernel changes the real terminal's size when it sends SIGWINCH
SizeAfter(sig) ==
    IF sig = "SIGWINCH"
    THEN {[tty EXCEPT !.size = z] : z \in Sizes}
    ELSE {tty}

\* a signal arrives during select and select raises EINTR: continue
\* (lines 280-285; an interpreter that retries select itself is Deliver
\* followed by SelectReady)
SelectInterrupted ==
    /\ pc = "select"
    /\ Inputs < MaxInputs
    /\ \E sig \in Signals :
          /\ sigPipe' = Append(sigPipe, sig)
          /\ sigLog' = Append(sigLog, sig)
          /\ tty' \in SizeAfter(sig)
    /\ selectResult' = "interrupted"
    /\ pc' = "sched"
    /\ UNCHANGED <<script, runner, rpos, script_action, timeout, fds, rfds,
                   rfdsBound, data, signals, masterOpen, closeCount, ptySize,
                   restore, termMode, restoreCount, exitKind, now,
                   ptyWrites, stdoutLog, masterLog, stdinLog,
                   waitFrom>>

\* select raises another OSError: the handler falls through to line 287,
\* where rfds is what an earlier select left, or is unbound (NameError)
SelectError ==
    /\ pc = "select"
    /\ IF rfdsBound
       THEN pc' = "dispatch_master" /\ UNCHANGED exitKind
       ELSE Leave("failure")
    /\ selectResult' = "error"
    /\ UNCHANGED <<script, runner, rpos, script_action, timeout, fds, rfds,
                   rfdsBound, data, signals, masterOpen, closeCount, ptySize,
                   tty, restore, termMode, restoreCount, sigPipe,
                   now, ptyWrites, stdoutLog, masterLog, stdinLog, sigLog,
                   waitFrom>>

(***************************************************************************)
(* _copy: dispatch of the ready descriptors (lines 287-314).               *)
(***************************************************************************)
\* _write_stdout (lines 227-228): one os.write, its result not looked at
WriteStdout(d, n) == stdoutLog' = stdoutLog \o Take(d, n)

\* a mutant of AfterMasterRead: a marker read earlier resolves the wait too
AfterMasterReadRemembering(d) ==
    IF Has(ACT_WAIT_SEQUENCE)
       /\ (Contains(d, script_action[ACT_WAIT_SEQUENCE]) \/ MarkerSeen)
    THEN NoAction
    ELSE script_action

\* _handle_master_read's test (lines 231-233): the slot after chunk d
AfterMasterRead(d) ==
    IF Has(ACT_WAIT_SEQUENCE) /\ Contains(d, script_action[ACT_WAIT_SEQUENCE])
    THEN NoAction
    ELSE script_action

DispatchMaster ==
    /\ pc = "dispatch_master"
    /\ \/ /\ "master" \notin rfds
          /\ pc' = "dispatch_stdin"
          /\ UNCHANGED <<script_action, fds, stdoutLog, masterLog, exitKind>>
       \/ \* os.read raises OSError
          /\ "master" \in rfds
          /\ Leave("oserror")
          /\ UNCHANGED <<script_action, fds, stdoutLog, masterLog>>
       \/ \* end of file: fds.remove(master_fd), a ValueError when it is gone
          /\ "master" \in rfds
          /\ Inputs < MaxInputs \/ "master" \notin fds
          /\ IF "master" \in fds
             THEN /\ fds' = fds \ {"master"}
                  /\ pc' = "dispatch_stdin"
                  /\ UNCHANGED exitKind
             ELSE /\ Leave("failure")
                  /\ UNCHANGED fds
          /\ UNCHANGED <<script_action, stdoutLog, masterLog>>
       \/ \* a chunk is read: _handle_master_read
          /\ "master" \in rfds
          /\ Inputs < MaxInputs
          /\ \E d \in MasterChunks :
                /\ masterLog' = Append(masterLog, d)
                /\ script_action' = AfterMasterRead(d)
                /\ \/ /\ \E n \in WriteCounts(d) : WriteStdout(d, n)
                      /\ pc' = "dispatch_stdin"
                      /\ UNCHANGED exitKind
                   \/ \* os.write raises OSError
                      /\ Leave("oserror")
                      /\ UNCHANGED stdoutLog
          /\ UNCHANGED fds
    /\ UNCHANGED <<script, runner, rpos, timeout, rfds, rfdsBound, data,
                   signals, masterOpen, closeCount, ptySize, tty, restore,
                   termMode, restoreCount, sigPipe, now, ptyWrites,
                   stdinLog, sigLog,
                   waitFrom, selectResult>>

\* a mutant of ForwardsStdin: input is forwarded during the script too
ForwardsStdinAlways == TRUE

\* "if not runner" (line 299)
ForwardsStdin == runner = "None"

DispatchStdin ==
    /\ pc = "dispatch_stdin"
    /\ \/ /\ "stdin" \notin rfds
          /\ pc' = "dispatch_signal"
          /\ UNCHANGED <<fds, data, stdinLog, exitKind>>
       \/ \* os.read raises OSError
          /\ "stdin" \in rfds
          /\ Leave("oserror")
          /\ UNCHANGED <<fds, data, stdinLog>>
       \/ \* end of file: fds.remove(pty.STDIN_FILENO)
          /\ "stdin" \in rfds
          /\ Inputs < MaxInputs \/ "stdin" \notin fds
          /\ IF "stdin" \in fds
             THEN /\ fds' = fds \ {"stdin"}
                  /\ pc' = "dispatch_signal"
                  /\ UNCHANGED exitKind
             ELSE /\ Leave("failure")
                  /\ UNCHANGED fds
          /\ UNCHANGED <<data, stdinLog>>
       \/ \* a chunk is read; it is written when runner is None (line 299)
          /\ "stdin" \in rfds
          /\ Inputs < MaxInputs
          /\ \E d \in StdinChunks :
                /\ stdinLog' = Append(stdinLog, [data |-> d, runner |-> runner])
                /\ IF ForwardsStdin
                   THEN data' = d /\ pc' = "write_master"
                   ELSE UNCHANGED data /\ pc' = "dispatch_signal"
          /\ UNCHANGED <<fds, exitKind>>
    /\ UNCHANGED <<script, runner, rpos, script_action, timeout, rfds,
                   rfdsBound, signals, masterOpen, closeCount, ptySize, tty,
                   restore, termMode, restoreCount, sigPipe, now,
                   ptyWrites, stdoutLog, masterLog, sigLog,
                   waitFrom, selectResult>>

\* a mutant of WriteMaster: one os.write, its result not looked at
WriteMasterOnce ==
    /\ pc = "write_master"
    /\ \/ \E n \in WriteCounts(data) :
             /\ ptyWrites' = Append(ptyWrites,
                                    [src |-> "stdin", cmd |-> 0,
                                     data |-> Take(data, n)])
             /\ data' = <<>>
             /\ pc' = "dispatch_signal"
             /\ UNCHANGED exitKind
       \/ /\ Leave("oserror")
          /\ UNCHANGED <<ptyWrites, data>>
    /\ UNCHANGED <<script, runner, rpos, script_action, timeout, fds, rfds,
                   rfdsBound, signals, masterOpen, closeCount, ptySize, tty,
                   restore, termMode, restoreCount, sigPipe, now,
                   stdoutLog, masterLog, stdinLog, sigLog,
                   waitFrom, selectResult>>

\* one pass of _write_master's loop (lines 238-240)
WriteMaster ==
    /\ pc = "write_master"
    /\ \/ \E n \in WriteCounts(data) :
             /\ ptyWrites' = Append(ptyWrites,
                                    [src |-> "stdin", cmd |-> 0,
                                     data |-> Take(data, n)])
             /\ data' = Drop(data, n)
             /\ pc' = IF Drop(data, n) = <<>> THEN "dispatch_signal"
                      ELSE "write_master"
             /\ UNCHANGED exitKind
       \/ \* os.write raises OSError
          /\ Leave("oserror")
          /\ UNCHANGED <<ptyWrites, data>>
    /\ UNCHANGED <<script, runner, rpos, script_action, timeout, fds, rfds,
                   rfdsBound, signals, masterOpen, closeCount, ptySize, tty,
                   restore, termMode, restoreCount, sigPipe, now,
                   stdoutLog, masterLog, stdinLog, sigLog,
                   waitFrom, selectResult>>

\* lines 302-305: the pipe is read empty; the read blocks on an empty pipe
DispatchSignal ==
    /\ pc = "dispatch_signal"
    /\ \/ /\ "signal" \notin rfds
          /\ pc' = "sched"
          /\ UNCHANGED <<signals, sigPipe>>
       \/ /\ "signal" \in rfds
          /\ sigPipe # <<>>
          /\ signals' = sigPipe
          /\ sigPipe' = <<>>
          /\ pc' = "signals"
    /\ UNCHANGED <<script, runner, rpos, script_action, timeout, fds, rfds,
                   rfdsBound, data, masterOpen, closeCount, ptySize, tty,
                   restore, termMode, restoreCount, exitKind, now,
                   ptyWrites, stdoutLog, masterLog, stdinLog, sigLog,
                   waitFrom, selectResult>>

\* a mutant of HandleSignal: no return after os.close(master_fd)
HandleSignalGoesOn ==
    /\ pc = "signals"
    /\ \/ /\ signals = <<>>
          /\ pc' = "sched"
          /\ UNCHANGED <<signals, masterOpen, closeCount, ptySize, exitKind>>
       \/ /\ signals # <<>>
          /\ Head(signals) \in TermSignals
          /\ masterOpen' = FALSE
          /\ closeCount' = closeCount + 1
          /\ signals' = Tail(signals)
          /\ pc' = "signals"
          /\ UNCHANGED <<ptySize, exitKind>>
       \/ /\ signals # <<>>
          /\ Head(signals) = "SIGWINCH"
          /\ ptySize' = SetPtySizeTo
          /\ signals' = Tail(signals)
          /\ pc' = "signals"
          /\ UNCHANGED <<masterOpen, closeCount, exitKind>>
    /\ UNCHANGED <<script, runner, rpos, script_action, timeout, fds, rfds,
                   rfdsBound, data, tty, restore, termMode, restoreCount,
                   sigPipe, now, ptyWrites, stdoutLog, masterLog,
                   stdinLog, sigLog,
                   waitFrom, selectResult>>

\* one pass of "for sig in signals" (lines 306-314)
HandleSignal ==
    /\ pc = "signals"
    /\ \/ /\ signals = <<>>
          /\ pc' = "sched"
          /\ UNCHANGED <<signals, masterOpen, closeCount, ptySize, exitKind>>
       \/ /\ signals # <<>>
          /\ Head(signals) \in TermSignals
          /\ masterOpen' = FALSE
          /\ closeCount' = closeCount + 1
          /\ Leave("return")
          /\ UNCHANGED <<signals, ptySize>>
       \/ /\ signals # <<>>
          /\ Head(signals) = "SIGWINCH"
          /\ ptySize' = SetPtySizeTo
          /\ signals' = Tail(signals)
          /\ pc' = "signals"
          /\ UNCHANGED <<masterOpen, closeCount, exitKind>>
    /\ UNCHANGED <<script, runner, rpos, script_action, timeout, fds, rfds,
                   rfdsBound, data, tty, restore, termMode, restoreCount,
                   sigPipe, now, ptyWrites, stdoutLog, masterLog,
                   stdinLog, sigLog,
                   waitFrom, selectResult>>

(***************************************************************************)
(* record_command after the loop (lines 337-345).                          *)
(***************************************************************************)
\* a mutant of RawExit: the mode is restored by a statement after the call
\* of _copy, which an exception other than OSError skips
RawExitNoFinally ==
    /\ pc = "raw_exit"
    /\ IF restore /\ exitKind # "failure"
       THEN termMode' = "cooked" /\ restoreCount' = restoreCount + 1
       ELSE UNCHANGED <<termMode, restoreCount>>
    /\ pc' = IF exitKind = "failure" THEN "raised" ELSE "waitpid"
    /\ UNCHANGED <<script, runner, rpos, script_action, timeout, fds, rfds,
                   rfdsBound, data, signals, masterOpen, closeCount, ptySize,
                   tty, restore, exitKind, sigPipe, now, ptyWrites,
                   stdoutLog, masterLog, stdinLog, sigLog,
                   waitFrom, selectResult>>

\* raw.__exit__ (lines 104-106).  An OSError was caught inside the with
\* block (lines 340-341) and control goes on to line 343, whose
\* restoring of the signal handlers is not modelled; any other exception
\* leaves record_command
RawExit ==
    /\ pc = "raw_exit"
    /\ IF restore
       THEN termMode' = "cooked" /\ restoreCount' = restoreCount + 1
       ELSE UNCHANGED <<termMode, restoreCount>>
    /\ pc' = IF exitKind = "failure" THEN "raised" ELSE "waitpid"
    /\ UNCHANGED <<script, runner, rpos, script_action, timeout, fds, rfds,
                   rfdsBound, data, signals, masterOpen, closeCount, ptySize,
                   tty, restore, exitKind, sigPipe, now, ptyWrites,
                   stdoutLog, masterLog, stdinLog, sigLog,
                   waitFrom, selectResult>>

\* os.waitpid(pid, 0) (line 345) is called and returns
WaitPid ==
    /\ pc = "waitpid"
    /\ pc' = "done"
    /\ UNCHANGED <<script, runner, rpos, script_action, timeout, fds, rfds,
                   rfdsBound, data, signals, masterOpen, closeCount, ptySize,
                   tty, restore, termMode, restoreCount, exitKind, sigPipe, now, ptyWrites, stdoutLog, masterLog, stdinLog,
                   sigLog,
                   waitFrom, selectResult>>

(***************************************************************************)
(* The environment: signals and the clock.                                 *)
(***************************************************************************)
\* a signal is delivered: the wakeup descriptor gets its number (line 326).
\* The loop looks at the pipe in select and in the read of line 303 only, so
\* a delivery at another place is a delivery at the next of these
Deliver ==
    /\ pc = "sched" \/ (pc = "dispatch_signal" /\ "signal" \in rfds)
    /\ Inputs < MaxInputs
    /\ \E sig \in Signals :
          /\ sigPipe' = Append(sigPipe, sig)
          /\ sigLog' = Append(sigLog, sig)
          /\ tty' \in SizeAfter(sig)
    /\ UNCHANGED <<pc, script, runner, rpos, script_action, timeout, fds,
                   rfds, rfdsBound, data, signals, masterOpen, closeCount,
                   ptySize, restore, termMode, restoreCount, exitKind,
                   now, ptyWrites, stdoutLog, masterLog, stdinLog,
                   waitFrom, selectResult>>

\* time passes.  The loop reads the clock only while a sleep is
\* outstanding (lines 84 and 262), and once the deadline has passed more
\* time changes nothing
Tick ==
    /\ pc = "sched" \/ (pc = "select" /\ timeout = None)
    /\ Has(ACT_SLEEP)
    /\ now <= script_action[ACT_SLEEP]
    /\ now < MaxTime
    /\ now' = now + 1
    /\ UNCHANGED <<pc, script, runner, rpos, script_action, timeout, fds,
                   rfds, rfdsBound, data, signals, masterOpen, closeCount,
                   ptySize, tty, restore, termMode, restoreCount, exitKind,
                   sigPipe, ptyWrites, stdoutLog, masterLog,
                   stdinLog, sigLog,
                   waitFrom, selectResult>>

Next ==
    \/ SetPtySize
    \/ RawEnter
    \/ SchedStep
    \/ SelectReady
    \/ SelectTimeout
    \/ SelectInterrupted
    \/ SelectError
    \/ DispatchMaster
    \/ DispatchStdin
    \/ WriteMaster
    \/ DispatchSignal
    \/ HandleSignal
    \/ RawExit
    \/ WaitPid
    \/ Deliver
    \/ Tick

Spec == Init /\ [][Next]_vars

(***************************************************************************)
(* What the histories say.                                                 *)
(***************************************************************************)
Datas(ws) == Flatten([i \in 1..Len(ws) |-> ws[i].data])

\* the bytes written to master_fd for the real input, in order
StdinWritten == Datas(SelectSeq(ptyWrites, LAMBDA w : w.src = "stdin"))

\* the bytes written to master_fd by the k-th command, in order
ScriptWritten(k) ==
    Datas(SelectSeq(ptyWrites, LAMBDA w : w.src = "script" /\ w.cmd = k))

\* the bytes read from the real input after runner became None, in order
StdinToForward == Datas(SelectSeq(stdinLog, LAMBDA e : e.runner = "None"))

\* the characters of the k-th command the generator has gone past
TypedSoFar(k) ==
    IF rpos.ci > k THEN Chars(k)
    ELSE IF rpos.ci = k THEN Take(Chars(k), rpos.ti - 1)
    ELSE <<>>

\* the session is past the with block of line 337
AfterWith == pc \in {"waitpid", "done", "raised"}

\* the k-th command is the wait of an enter: CmdEnter's Sequence is a
\* CmdType followed by a CmdWait
IsEnterWait(k) == k \in 2..Len(script) /\ script[k].op = "wait" /\ IsType(k - 1)

\* the child's output read since the last wait was yielded, as one stream
WaitStream == Flatten(SubSeq(masterLog, waitFrom + 1, Len(masterLog)))

(***************************************************************************)
(* C1.  While runner is not None no byte read from the real input is       *)
(* written to the pseudo-terminal; the chunks read once runner is None are *)
(* written to it, all of them and nothing else, when the loop has          *)
(* dispatched them.                                                        *)
(***************************************************************************)
C1_ScriptOwnsInput ==
    /\ runner # "None" => \A i \in 1..Len(ptyWrites) : ptyWrites[i].src # "stdin"
    /\ (pc \in LoopPcs \ {"write_master"} \/ exitKind = "return")
          => StdinWritten = StdinToForward

\* a chunk was read and dropped during the script, another was read and
\* written in pass-through
C1_Witness ==
    /\ pc = "dispatch_signal"
    /\ \E i, j \in 1..Len(stdinLog) :
          /\ stdinLog[i].runner = "generator"
          /\ stdinLog[j].runner = "None"
          /\ StdinWritten = stdinLog[j].data

(***************************************************************************)
(* C2.  A step that reads a chunk from the pseudo-terminal while a         *)
(* WaitForSequence is outstanding, and raises nothing, appends the whole   *)
(* chunk to the real output, and empties the slot exactly when the pattern *)
(* is in the chunk.                                                        *)
(***************************************************************************)
C2_WaitResolvedChunkForwarded ==
    [][(/\ Has(ACT_WAIT_SEQUENCE)
        /\ Len(masterLog') > Len(masterLog)
        /\ pc' # "raw_exit") =>
          LET d == Last(masterLog')
          IN /\ stdoutLog' = stdoutLog \o d
             /\ script_action' =
                   IF Contains(d, script_action[ACT_WAIT_SEQUENCE])
                   THEN NoAction
                   ELSE script_action]_vars

(***************************************************************************)
(* C3.  The writes of every Type command are the characters the generator  *)
(* has gone past, in order and one per write; a step that writes one finds *)
(* a SleepUntil in the slot whose deadline is before now, and writes the   *)
(* character that sleep was yielded for.                                   *)
(***************************************************************************)
C3_TypeInOrderAfterDeadline ==
    /\ [](/\ \A k \in 1..Len(script) :
               IsType(k) => ScriptWritten(k) = TypedSoFar(k)
          /\ \A i \in 1..Len(ptyWrites) :
               ptyWrites[i].src = "script" => Len(ptyWrites[i].data) = 1)
    /\ [][(Len(ptyWrites') > Len(ptyWrites) /\ Last(ptyWrites').src = "script")
             => /\ Has(ACT_SLEEP)
                /\ script_action[ACT_SLEEP] < now
                /\ IsType(rpos.ci)
                /\ ptyWrites' = Append(ptyWrites,
                                       [src |-> "script", cmd |-> rpos.ci,
                                        data |-> <<Chars(rpos.ci)[rpos.ti]>>])
          ]_vars

\* a Type command of two characters has written both
C3_Witness ==
    \E k \in 1..Len(script) :
       /\ IsType(k)
       /\ Len(Chars(k)) >= 2
       /\ ScriptWritten(k) = Chars(k)

(***************************************************************************)
(* C4.  When a terminating signal was delivered during the session and     *)
(* the loop has ended (by a return or by an OSError), the master           *)
(* descriptor is closed.                                                   *)
(***************************************************************************)
C4_TermSignalClosesMaster ==
    (pc \in {"waitpid", "done"} /\ \E i \in 1..Len(sigLog) : sigLog[i] \in TermSignals)
       => ~masterOpen

(***************************************************************************)
(* C5.  The saved mode is restored once after the with block when raw mode *)
(* was entered, and not at all before that or when it was not entered.     *)
(***************************************************************************)
C5_ModeRestoredOnce ==
    /\ restoreCount = IF AfterWith /\ restore THEN 1 ELSE 0
    /\ AfterWith => termMode = "cooked"
    /\ (pc \in LoopPcs \cup {"raw_exit"} /\ tty.stdin) => restore /\ termMode = "raw"

\* a failure that is no OSError left the loop, and the mode was restored
C5_Witness == pc = "raised" /\ restoreCount = 1 /\ termMode = "cooked"

(***************************************************************************)
(* C6.  When record_command calls waitpid the master descriptor is closed. *)
(***************************************************************************)
C6_MasterClosedBeforeReap == pc = "waitpid" => ~masterOpen

(***************************************************************************)
(* C7.  As long as nothing was raised, the bytes the real output accepted  *)
(* are the chunks read from the pseudo-terminal, in order.                 *)
(***************************************************************************)
C7_OutputIsCopy ==
    exitKind \in {"none", "return"} => stdoutLog = Flatten(masterLog)

(***************************************************************************)
(* C8.  In pass-through the bytes written for the real input, followed by  *)
(* the bytes _write_master still holds, are the bytes read; while          *)
(* _write_master holds bytes the loop reads nothing and handles no signal, *)
(* each write takes some of them, and the loop goes on only with none      *)
(* left.                                                                   *)
(***************************************************************************)
C8_PartialWritesRetried ==
    /\ [](pc \in LoopPcs =>
            StdinWritten \o (IF pc = "write_master" THEN data ELSE <<>>)
               = StdinToForward)
    /\ [][pc = "write_master" =>
            /\ masterLog' = masterLog
            /\ stdinLog' = stdinLog
            /\ stdoutLog' = stdoutLog
            /\ signals' = signals
            /\ sigPipe' = sigPipe
            /\ pc' \in {"write_master", "dispatch_signal", "raw_exit"}
            /\ pc' = "write_master" => data' # <<>> /\ Len(data') < Len(data)
            /\ pc' = "dispatch_signal" => data' = <<>>
         ]_vars

\* a chunk of two bytes went out in two writes
C8_Witness ==
    /\ pc = "dispatch_signal"
    /\ \E i \in 1..(Len(ptyWrites) - 1) :
          /\ ptyWrites[i].src = "stdin"
          /\ ptyWrites[i + 1].src = "stdin"
          /\ \E e \in 1..Len(stdinLog) :
                stdinLog[e].data = ptyWrites[i].data \o ptyWrites[i + 1].data

(***************************************************************************)
(* C9.  The step that handles SIGWINCH while a script action is            *)
(* outstanding gives the pseudo-terminal the real terminal's size and      *)
(* leaves the slot, the generator, the watch list, the timeout and the     *)
(* phase as they are; the loop goes on.                                    *)
(***************************************************************************)
C9_ResizeKeepsScript ==
    [][(/\ pc = "signals"
        /\ signals # <<>>
        /\ Head(signals) = "SIGWINCH"
        /\ script_action # NoAction)
          => /\ tty.isatty => ptySize' = tty.size
             /\ script_action' = script_action
             /\ rpos' = rpos
             /\ runner' = runner
             /\ fds' = fds
             /\ timeout' = timeout
             /\ ptyWrites' = ptyWrites
             /\ pc' \in LoopPcs
             /\ masterOpen'
             /\ exitKind' = "none"]_vars

\* a resize to 50 x 132 was handled with an action outstanding
C9_Witness ==
    /\ pc = "signals"
    /\ ptySize = <<50, 132>>
    /\ script_action # NoAction
    /\ sigLog # <<>>
    /\ Last(sigLog) = "SIGWINCH"

(***************************************************************************)
(* C10.  While the wait of an Enter is outstanding, every character of the *)
(* Type before it has been written and the last byte written is the line   *)
(* feed; the generator is past that wait, or pass-through has begun, only  *)
(* when a chunk with the marker was read.                                  *)
(***************************************************************************)
C10_EnterTypesThenWaits ==
    \A k \in 1..Len(script) :
       IsEnterWait(k) =>
          /\ (rpos.ci = k /\ Has(ACT_WAIT_SEQUENCE)) =>
                /\ ScriptWritten(k - 1) = Chars(k - 1)
                /\ ScriptWritten(k - 1) # <<>>
                /\ Last(ScriptWritten(k - 1)) = 10
          /\ (rpos.ci > k \/ (rpos.ci >= k /\ runner = "None")) => MarkerSeen

(***************************************************************************)
(* C11.  While a WaitForSequence is outstanding the marker has not         *)
(* appeared in the stream of the child's output read since it was yielded, *)
(* however the reads cut that stream; and a step that resolves it has read *)
(* the marker's last byte in that stream.                                  *)
(***************************************************************************)
C11_WaitResolvedByStream ==
    /\ [](Has(ACT_WAIT_SEQUENCE) => ~Contains(WaitStream, Marker))
    /\ [][(Has(ACT_WAIT_SEQUENCE) /\ script_action' = NoAction)
             => /\ Len(masterLog') = Len(masterLog) + 1
                /\ Contains(WaitStream', Marker)]_vars

(***************************************************************************)
(* C12.  The generator goes through the commands in source order: its      *)
(* writes are in the order of their commands, every Type command before    *)
(* the one it stands at has written its characters, once each, and no      *)
(* later one has written any; the action in the slot is the one of the     *)
(* command it stands at; a resumption goes to the next step of the same    *)
(* command or, when that command is finished, to the first step of the     *)
(* nearest later command that has one; and runner is None only past the    *)
(* last command.                                                           *)
(***************************************************************************)
C12_CommandsInSourceOrder ==
    /\ [](/\ \A i, j \in 1..Len(ptyWrites) :
                (i < j /\ ptyWrites[i].src = "script" /\ ptyWrites[j].src = "script")
                   => ptyWrites[i].cmd <= ptyWrites[j].cmd
          /\ \A k \in 1..Len(script) :
                /\ (IsType(k) /\ k < rpos.ci) => ScriptWritten(k) = Chars(k)
                /\ k > rpos.ci => ScriptWritten(k) = <<>>
                /\ ~IsType(k) => ScriptWritten(k) = <<>>
          /\ Has(ACT_WAIT_SEQUENCE)
                => rpos.ci \in 1..Len(script) /\ script[rpos.ci].op = "wait"
          /\ Has(ACT_SLEEP)
                => rpos.ci \in 1..Len(script) /\ script[rpos.ci].op \in {"type", "sleep"}
          /\ runner = "None" => rpos.ci = Len(script) + 1)
    /\ [][rpos' # rpos =>
            \/ /\ IsType(rpos.ci)
               /\ rpos.ti < Len(Chars(rpos.ci))
               /\ rpos' = [ci |-> rpos.ci, ti |-> rpos.ti + 1]
            \/ /\ IsType(rpos.ci) => rpos.ti = Len(Chars(rpos.ci))
               /\ rpos'.ci \in (rpos.ci + 1)..(Len(script) + 1)
               /\ \A k \in (rpos.ci + 1)..(rpos'.ci - 1) :
                     IsType(k) /\ ~DecodeFails(script[k].text) /\ Chars(k) = <<>>
               /\ rpos'.ti = IF IsType(rpos'.ci) /\ ~DecodeFails(script[rpos'.ci].text)
                             THEN 1 ELSE 0
               /\ (runner' = "None") <=> (rpos'.ci = Len(script) + 1)
         ]_vars

\* the generator was exhausted after a script of two commands, a wait and
\* a Type, whose character was written
C12_Witness ==
    /\ runner = "None"
    /\ Len(script) = 2
    /\ script[1].op = "wait"
    /\ ScriptWritten(2) = Chars(2)
    /\ Chars(2) # <<>>

(***************************************************************************)
(* The key encoder by itself: a Type command whose text is one key name,   *)
(* "<alt-L>" in several letter cases, and its generator run to the end on  *)
(* a descriptor that takes every write (lines 136-141).                    *)
(***************************************************************************)
Letters == 97..122

\* "alt-", "ALT-", "Alt-", "aLT-" before a letter in lower or upper case
AltPrefixes ==
    { <<97, 108, 116, 45>>, <<65, 76, 84, 45>>, <<65, 108, 116, 45>>,
      <<97, 76, 84, 45>> }

AltNames ==
    {p \o <<c>> : p \in AltPrefixes, c \in Letters}
    \cup {p \o <<UpperC(c)>> : p \in AltPrefixes, c \in Letters}

KeyText(name) == <<60>> \o name \o <<62>>

InitKeys ==
    /\ pc = "execute"
    /\ \E name \in AltNames : script = <<CmdType(KeyText(name))>>
    /\ tty = [stdin |-> FALSE, isatty |-> FALSE, size |-> <<25, 81>>]
    /\ runner = "generator"
    /\ rpos = [ci |-> 0, ti |-> 0]
    /\ script_action = NoAction
    /\ timeout = None
    /\ fds = {"master", "stdin", "signal"}
    /\ rfds = {}
    /\ rfdsBound = FALSE
    /\ data = <<>>
    /\ signals = <<>>
    /\ masterOpen = TRUE
    /\ closeCount = 0
    /\ ptySize = <<0, 0>>
    /\ restore = FALSE
    /\ termMode = "cooked"
    /\ restoreCount = 0
    /\ exitKind = "none"
    /\ sigPipe = <<>>
    /\ now = 0
    /\ ptyWrites = <<>>
    /\ stdoutLog = <<>>
    /\ masterLog = <<>>
    /\ stdinLog = <<>>
    /\ sigLog = <<>>
    /\ waitFrom = 0
    /\ selectResult = "none"

\* next(generator): the character of the last yield is written, and the
\* generator yields for the next one or is exhausted
ExecuteStep ==
    /\ pc = "execute"
    /\ LET w == PendingChar(rpos)
           y == NextYield(rpos)
       IN /\ ptyWrites' = IF w = <<>> THEN ptyWrites
                          ELSE Append(ptyWrites,
                                      [src |-> "script", cmd |-> rpos.ci,
                                       data |-> w])
          /\ rpos' = y.pos
          /\ \/ /\ y.kind = "keystroke"
                /\ UNCHANGED <<pc, runner>>
             \/ /\ y.kind = "stop"
                /\ runner' = "None"
                /\ pc' = "executed"
    /\ UNCHANGED <<script, script_action, timeout, fds, rfds, rfdsBound, data,
                   signals, masterOpen, closeCount, ptySize, tty, restore,
                   termMode, restoreCount, exitKind, sigPipe, now, stdoutLog,
                   masterLog, stdinLog, sigLog, waitFrom, selectResult>>

NextKeys == ExecuteStep

SpecKeys == InitKeys /\ [][NextKeys]_vars

\* the key name of a Type command whose text is "<name>"
KeyName(k) == SubSeq(script[k].text, 2, Len(script[k].text) - 1)

(***************************************************************************)
(* C13.  A Type command whose text is the key name alt-L, in any letter    *)
(* case, writes two characters: ESC and the lowercase letter L.            *)
(***************************************************************************)
C13_AltIsEscLetter ==
    (pc = "executed" /\ Lower(Take(KeyName(1), 4)) = PfxAlt)
       => /\ EscapeKey(KeyName(1)) = <<ESC, LowerC(Last(KeyName(1)))>>
          /\ ScriptWritten(1) = <<ESC, LowerC(Last(KeyName(1)))>>

(***************************************************************************)
(* C14.  When the loop calls select with a SleepUntil(t) in the slot, the  *)
(* timeout it passes is max(0, t - now), and never None.                   *)
(***************************************************************************)
C14_SleepHasTimeout ==
    (pc = "select" /\ Has(ACT_SLEEP))
       => /\ timeout # None
          /\ timeout = IF script_action[ACT_SLEEP] - now > 0
                       THEN script_action[ACT_SLEEP] - now
                       ELSE 0

(***************************************************************************)
(* C15.  The slot holds at most one action; and a step that resumes the    *)
(* generator finds the slot empty, or finds in it a SleepUntil whose       *)
(* deadline is before now: never a WaitForSequence, never a SleepUntil     *)
(* whose deadline is still to come.                                        *)
(***************************************************************************)
C15_OneActionResumedWhenResolved ==
    /\ [](Cardinality(DOMAIN script_action) <= 1)
    /\ [][(/\ pc = "sched"
           /\ rpos' # rpos \/ runner' # runner \/ pc' = "raw_exit"
                \/ ptyWrites' # ptyWrites \/ script_action' # script_action)
             => \/ script_action = NoAction
                \/ /\ Has(ACT_SLEEP)
                   /\ ~Has(ACT_WAIT_SEQUENCE)
                   /\ script_action[ACT_SLEEP] < now]_vars

\* the generator was resumed from an empty slot after the wait of an
\* enter was resolved, and stands at the command after it
C15_Witness ==
    /\ Len(script) = 3
    /\ IsEnterWait(2)
    /\ rpos.ci = 3
    /\ Has(ACT_SLEEP)
    /\ MarkerSeen

(***************************************************************************)
(* C16.  While runner is not None, select is not given the real input to   *)
(* watch and reports nothing ready on it, and no chunk has been read from  *)
(* the real input.                                                         *)
(***************************************************************************)
C16_StdinUnwatchedInScript ==
    /\ (pc = "select" /\ runner # "None") => "stdin" \notin fds
    /\ (pc = "dispatch_stdin" /\ runner # "None") => "stdin" \notin rfds
    /\ \A i \in 1..Len(stdinLog) : stdinLog[i].runner = "None"

(***************************************************************************)
(* C17.  The loop dispatches the descriptors only after a select that      *)
(* returned, with the ready list of that call: after an interrupted select *)
(* it is back at the top of the loop, and after a select that raised       *)
(* another error, or a read or write that raised one, it has ended.        *)
(***************************************************************************)
C17_FailedWaitNotDispatched ==
    /\ pc \in {"dispatch_master", "dispatch_stdin", "write_master",
                "dispatch_signal", "signals"}
          => selectResult \in {"ready", "timeout"}
    /\ (selectResult = "interrupted" /\ pc \in LoopPcs) => pc \in {"sched", "select"}
    /\ selectResult = "error" => pc \notin LoopPcs
    /\ exitKind # "none" => pc \notin LoopPcs

(***************************************************************************)
(* C18.  Once runner is None it stays None: the generator does not move    *)
(* and writes nothing more, the slot is empty, and the timeout select is   *)
(* given is None.                                                          *)
(***************************************************************************)
C18_PassThroughForGood ==
    /\ []((runner = "None" /\ pc \in LoopPcs)
            => /\ script_action = NoAction
               /\ timeout = None
               /\ rpos = [ci |-> Len(script) + 1, ti |-> 0])
    /\ [][runner = "None"
            => /\ runner' = "None"
               /\ rpos' = rpos
               /\ script_action' = script_action
               /\ timeout' = timeout
               /\ \A k \in 1..Len(script) : ScriptWritten(k)' = ScriptWritten(k)
         ]_vars

\* the script ended with the SleepUntil of a Type's last character, which
\* a select with a timeout had waited for; the loop is about to call select
\* in pass-through
C18_Witness ==
    /\ runner = "None"
    /\ pc = "select"
    /\ selectResult = "timeout"
    /\ IsType(Len(script))
    /\ ScriptWritten(Len(script)) = Chars(Len(script))

(***************************************************************************)
(* C19.  os.close(master_fd) is called at most once, and with the          *)
(* descriptor closed the loop has ended: no step reads or writes the       *)
(* pseudo-terminal, sets its size, closes it again, handles another signal *)
(* of the batch or resumes the generator.                                  *)
(***************************************************************************)
C19_MasterNotUsedAfterClose ==
    /\ [](/\ closeCount <= 1
          /\ masterOpen <=> closeCount = 0
          /\ ~masterOpen => pc \notin LoopPcs /\ exitKind = "return")
    /\ [][~masterOpen
            => /\ masterLog' = masterLog
               /\ stdoutLog' = stdoutLog
               /\ ptyWrites' = ptyWrites
               /\ ptySize' = ptySize
               /\ closeCount' = closeCount
               /\ masterOpen' = masterOpen
               /\ signals' = signals
               /\ sigPipe' = sigPipe
               /\ rpos' = rpos
               /\ runner' = runner
               /\ script_action' = script_action
         ]_vars

\* a batch of SIGQUIT and SIGWINCH: the session ended with the descriptor
\* closed and the new size of the real terminal not given to it
C19_Witness ==
    /\ pc = "done"
    /\ ~masterOpen
    /\ signals = <<"SIGQUIT", "SIGWINCH">>
    /\ tty.size = <<50, 132>>
    /\ ptySize = <<25, 81>>

(***************************************************************************)
(* C20.  A step that reads a chunk with the marker while no                *)
(* WaitForSequence is in the slot leaves the slot and the generator as     *)
(* they are, and does nothing but write the chunk to the real output,      *)
(* which takes the bytes os.write accepts; and a step that takes a         *)
(* WaitForSequence out of the slot reads a chunk that contains the marker, *)
(* whatever was read before the wait was yielded.                          *)
(***************************************************************************)
C20_EarlyMarkerNotRemembered ==
    [][/\ (/\ ~Has(ACT_WAIT_SEQUENCE)
           /\ Len(masterLog') > Len(masterLog)
           /\ Contains(Last(masterLog'), Marker))
             => /\ script_action' = script_action
                /\ rpos' = rpos
                /\ runner' = runner
                /\ ptyWrites' = ptyWrites
                /\ waitFrom' = waitFrom
                /\ \/ pc' = "raw_exit"
                   \/ \E n \in 1..Len(Last(masterLog')) :
                         stdoutLog' = stdoutLog \o Take(Last(masterLog'), n)
       /\ (Has(ACT_WAIT_SEQUENCE) /\ ~Has(ACT_WAIT_SEQUENCE)')
             => /\ masterLog' = Append(masterLog, Last(masterLog'))
                /\ Len(masterLog') > waitFrom
                /\ Contains(Last(masterLog'), Marker)
      ]_vars

\* a marker was read while a sleep was pending, and the wait yielded after
\* it is outstanding
C20_Witness ==
    /\ Has(ACT_WAIT_SEQUENCE)
    /\ pc = "select"
    /\ waitFrom >= 1
    /\ \E i \in 1..waitFrom : Contains(masterLog[i], Marker)

=============================================================================
